---------------------------- MODULE Spec2Model ----------------------------
(***************************************************************************)
(* Catalog ingestion pipeline of the THEMIS backend.                       *)
(*                                                                         *)
(* Part I  - the Cache Manager (get_or_build): its code is not among the   *)
(*           sources; it is modelled from sections 4.5, 5, 6 and 7 of the  *)
(*           design document.                                              *)
(* Part II - CatalogIngestionTester (test_multiformat_ingestion.py): the   *)
(*           JSON, CSV and PDF ingestion loops, the deduplication map and  *)
(*           the run that sequences them.                                  *)
(***************************************************************************)
EXTENDS Integers, Sequences, FiniteSets, TLC

\* ------------------------------------------------------------------ bounds
NumCallers == 2
MaxCalls == 3
MaxTicks == 2
MaxFiles == 2
MaxRecs == 2
MaxMembers == 3
MaxSegments == 2

\* ------------------------------------------------------- program constants
\* 'cache_ttl_hours': 24
TTL_HOURS == 24
\* json_files[:10]
JSON_LIMIT == 10

\* ------------------------------------------------------------------- state
VARIABLES
    now,        \* the callers' current time, in hours
    ticks,      \* number of clock advances so far (bounds the clock)
    l1,         \* in-process tier: fingerprint -> CacheEntry or NoEntry
    l2,         \* durable tier:    fingerprint -> CacheEntry or NoEntry
    inflight,   \* single-flight slot: fingerprint -> leader or NoCaller
    cpc,        \* caller -> "idle" | "building" | "waiting" | "done" | "failed"
    cfp,        \* caller -> fingerprint of its current / last call
    caller,     \* the caller that began the latest call
    cres,       \* caller -> ExtractionResult its last call returned
    chit,       \* caller -> was_hit of its last call
    builds,     \* fingerprint -> number of executions of build_fn begun
    lastBuild,  \* fingerprint -> outcome of the latest build
    failures,   \* fingerprint -> number of builds that ended without result
    served,     \* fingerprint -> entry behind the latest result returned
    calls,      \* number of get_or_build calls begun
    pc,         \* stage of CatalogIngestionTester.run
    idx,        \* position of the next file in the current stage's listing
    nfiles,     \* format -> number of files found in the catalogs directory
    hasPdf,     \* whether pdfplumber can be imported
    results,    \* self.results: format -> count, products, errors
    dedup_map,  \* self.dedup_map: product id -> sources
    attempts,   \* the files whose try block was entered, in order, and
                \* whether each raised
    cur,        \* the file read last: its name, its content, whether it raised
    report,     \* what test_deduplication and generate_report computed
    feed,       \* (product_id, source) pairs still to pass to _add_dedup
    perm,       \* the same pairs in another order, still to pass
    mapA,       \* dedup_map of the tester fed in the order of feed
    mapB,       \* dedup_map of the tester fed in the order of perm
    mpc,        \* position of the migration runner
    menv,       \* its environment: the two variables, the file, its text
    statements, \* the parsed statements
    mi,         \* index of the next statement
    success_count,
    failed_count,
    posted,     \* the sql_content of every requests.post call, in order
    exit_status,\* argument of sys.exit, or NotExited
    message,    \* the closing message printed after the summary
    apc,        \* position of AgentExtractionTester.run
    afile,      \* position of the next catalog in the current test's list
    health,     \* what the health check met: "none" before it
    aresults,   \* the tester's self.results: format -> entries appended
    requests,   \* every request the tester's session sent, in order
    areport,    \* how generate_report ended: "none" before it
    success,    \* what run returned to the main block: "none" before
    aexit,      \* exit status of the tester's process, or NotExited
    spc,        \* position of UserSimulation.run
    sstep,      \* position of the next step in run's list of steps
    invoked,    \* the steps run has called, in order
    outcomes,   \* how each of them ended: "True", "False" or "raised"
    tests,      \* self.test_results['tests']: step and status appended
    uploaded_catalogs, \* formats of the catalogs the upload step found
    cidx,       \* position of the next catalog in the ingestion step
    test_result,\* the ingestion step's test_result and its two totals
    summary,    \* whether print_summary has run
    exported,   \* "none", or how export_results ended
    sraised     \* whether an exception left run

cacheVars == <<now, ticks, l1, l2, inflight, cpc, cfp, caller, cres, chit,
               builds, lastBuild, failures, served, calls>>

runVars == <<pc, idx, nfiles, hasPdf, results, dedup_map, attempts, cur,
             report>>

dedupVars == <<feed, perm, mapA, mapB>>

migVars == <<mpc, menv, statements, mi, success_count, failed_count, posted,
             exit_status, message>>

agentVars == <<apc, afile, health, aresults, requests, areport, success,
               aexit>>

simVars == <<spc, sstep, invoked, outcomes, tests, uploaded_catalogs, cidx,
             test_result, summary, exported, sraised>>

vars == <<cacheVars, runVars, dedupVars, migVars, agentVars, simVars>>

\* What each component leaves alone.
notCache == <<runVars, dedupVars, migVars, agentVars, simVars>>
notRun == <<cacheVars, dedupVars, migVars, agentVars, simVars>>
notDedup == <<cacheVars, runVars, migVars, agentVars, simVars>>
notMig == <<cacheVars, runVars, dedupVars, agentVars, simVars>>
notAgent == <<cacheVars, runVars, dedupVars, migVars, simVars>>
notSim == <<cacheVars, runVars, dedupVars, migVars, agentVars>>

\* ============================ Part I: Cache Manager ======================
Callers == 1..NumCallers
Fingerprints == {"fpA", "fpB"}
NoEntry == [kind |-> "absent"]
NoCaller == 0
NoResult == [kind |-> "none"]

\* An ExtractionResult produced by the n-th execution of build_fn for f.
ExtractionResult(f, n) == [kind |-> "result", fingerprint |-> f, build |-> n]

CacheEntry(f, r, t) ==
    [kind |-> "entry", fingerprint |-> f, result |-> r,
     created_at |-> t, expires_at |-> t + TTL_HOURS]

\* Mutants of the expiry check: the boundary hour served; nothing ever live.
IsLiveInclusive(e, t) == e # NoEntry /\ t <= e.expires_at

IsLiveNever(e, t) == FALSE

\* Read-time expiry check against the caller's current time.
IsLive(e, t) == e # NoEntry /\ t < e.expires_at

\* The entry a read finds for f: the in-process tier first, then the durable.
Stored(f) == IF l1[f] # NoEntry THEN l1[f] ELSE l2[f]

Waiters(f) == {c \in Callers : cpc[c] = "waiting" /\ cfp[c] = f}

CacheInit ==
    /\ now = 0
    /\ ticks = 0
    /\ l1 = [f \in Fingerprints |-> NoEntry]
    /\ l2 = [f \in Fingerprints |-> NoEntry]
    /\ inflight = [f \in Fingerprints |-> NoCaller]
    /\ cpc = [c \in Callers |-> "idle"]
    /\ cfp = [c \in Callers |-> "fpA"]
    /\ caller = NoCaller
    /\ cres = [c \in Callers |-> NoResult]
    /\ chit = [c \in Callers |-> FALSE]
    /\ builds = [f \in Fingerprints |-> 0]
    /\ lastBuild = [f \in Fingerprints |-> "none"]
    /\ failures = [f \in Fingerprints |-> 0]
    /\ served = [f \in Fingerprints |-> NoEntry]
    /\ calls = 0

\* Mutant: every caller that misses starts a build of its own.
JoinsNever(f) == FALSE

\* What a caller does when get_or_build finds a slot already in flight.
JoinsInFlight(f) == inflight[f] # NoCaller

\* get_or_build(fingerprint, build_fn), up to its first suspension point:
\* a live entry is returned at once; otherwise the caller joins the build in
\* flight for the fingerprint, or becomes its leader and starts build_fn.
GetOrBuild(c, f) ==
    /\ cpc[c] \in {"idle", "done", "failed"}
    /\ calls < MaxCalls
    /\ calls' = calls + 1
    /\ cfp' = [cfp EXCEPT ![c] = f]
    /\ caller' = c
    /\ IF IsLive(Stored(f), now)
       THEN /\ cpc' = [cpc EXCEPT ![c] = "done"]
            /\ cres' = [cres EXCEPT ![c] = Stored(f).result]
            /\ chit' = [chit EXCEPT ![c] = TRUE]
            /\ served' = [served EXCEPT ![f] = Stored(f)]
            /\ l1' = [l1 EXCEPT ![f] = Stored(f)]
            /\ UNCHANGED <<l2, inflight, builds, lastBuild>>
       ELSE \* miss, or expired: the stale entry is invalidated by this read
            /\ l1' = [l1 EXCEPT ![f] = NoEntry]
            /\ l2' = [l2 EXCEPT ![f] = NoEntry]
            /\ cres' = [cres EXCEPT ![c] = NoResult]
            /\ chit' = [chit EXCEPT ![c] = FALSE]
            /\ served' = served
            /\ IF JoinsInFlight(f)
               THEN /\ cpc' = [cpc EXCEPT ![c] = "waiting"]
                    /\ UNCHANGED <<inflight, builds, lastBuild>>
               ELSE /\ cpc' = [cpc EXCEPT ![c] = "building"]
                    /\ inflight' = [inflight EXCEPT ![f] = c]
                    /\ builds' = [builds EXCEPT ![f] = @ + 1]
                    /\ lastBuild' = [lastBuild EXCEPT ![f] = "running"]
    /\ UNCHANGED <<now, ticks, failures, notCache>>

\* Mutant: the partial work of the abandoned build is stored.
TierKeepsPartial(tier, f) ==
    [tier EXCEPT ![f] = CacheEntry(f, NoResult, now)]

\* A tier after a build of f that ended without a result.
TierAfterFailure(tier, f) == [tier EXCEPT ![f] = NoEntry]

\* build_fn returns: the entry is written (the durable put may answer error),
\* the slot is released and the leader and every waiter receive the result.
BuildSucceeds(c, putOk) ==
    /\ cpc[c] = "building"
    /\ LET f == cfp[c]
           r == ExtractionResult(f, builds[f])
           e == CacheEntry(f, r, now)
           all == {c} \cup Waiters(f)
       IN /\ l1' = [l1 EXCEPT ![f] = e]
          /\ l2' = IF putOk THEN [l2 EXCEPT ![f] = e] ELSE l2
          /\ inflight' = [inflight EXCEPT ![f] = NoCaller]
          /\ lastBuild' = [lastBuild EXCEPT ![f] = "ok"]
          /\ served' = [served EXCEPT ![f] = e]
          /\ cpc' = [x \in Callers |-> IF x \in all THEN "done" ELSE cpc[x]]
          /\ cres' = [x \in Callers |-> IF x \in all THEN r ELSE cres[x]]
          /\ chit' = [x \in Callers |-> IF x \in all THEN FALSE ELSE chit[x]]
    /\ UNCHANGED <<now, ticks, cfp, caller, builds, failures, calls, notCache>>

\* build_fn raises (CacheBuildFailure) or the orchestrator's deadline cancels
\* the build (TimeoutExceeded): nothing is cached, the slot is released, and
\* the leader and its waiters receive the failure.
BuildEndsWithout(c, how) ==
    /\ cpc[c] = "building"
    /\ LET f == cfp[c]
           all == {c} \cup Waiters(f)
       IN /\ l1' = TierAfterFailure(l1, f)
          /\ l2' = TierAfterFailure(l2, f)
          /\ inflight' = [inflight EXCEPT ![f] = NoCaller]
          /\ lastBuild' = [lastBuild EXCEPT ![f] = how]
          /\ failures' = [failures EXCEPT ![f] = @ + 1]
          /\ cpc' = [x \in Callers |-> IF x \in all THEN "failed" ELSE cpc[x]]
          /\ cres' = [x \in Callers |-> IF x \in all THEN NoResult ELSE cres[x]]
          /\ chit' = [x \in Callers |-> IF x \in all THEN FALSE ELSE chit[x]]
    /\ UNCHANGED <<now, ticks, cfp, caller, builds, served, calls, notCache>>

BuildFails(c) == BuildEndsWithout(c, "failed")

BuildCancelled(c) == BuildEndsWithout(c, "cancelled")

\* Time passes; no entry is touched (no background eviction).
TickSteps == {1, TTL_HOURS - 1}

Tick(d) ==
    /\ ticks < MaxTicks
    /\ ticks' = ticks + 1
    /\ now' = now + d
    /\ UNCHANGED <<l1, l2, inflight, cpc, cfp, caller, cres, chit, builds,
                   lastBuild, failures, served, calls, notCache>>

CacheNext ==
    \/ \E c \in Callers, f \in Fingerprints : GetOrBuild(c, f)
    \/ \E c \in Callers, putOk \in BOOLEAN : BuildSucceeds(c, putOk)
    \/ \E c \in Callers : BuildFails(c)
    \/ \E c \in Callers : BuildCancelled(c)
    \/ \E d \in TickSteps : Tick(d)


\* ==================== Part II: CatalogIngestionTester ===================
Formats == {"json", "csv", "pdf"}

\* Python values that are not text.
None == "<None>"
UnhashableList == "<list>"

\* A file of the catalogs directory: its format and its place in the listing.
FileName(fmt, i) == <<fmt, i>>

\* dict.get(key, default) on a dict modelled as a function.
Get(d, key, default) == IF key \in DOMAIN d THEN d[key] ELSE default

\* Python truthiness of a cell or field: None and '' are falsy.
Truthy(v) == v # None /\ v # ""

\* a or b
Or(a, b) == IF Truthy(a) THEN a ELSE b

\* Whether a value can be a dict key ("product_id not in self.dedup_map").
Hashable(v) == v # UnhashableList

\* str.strip() on the cell texts of the model.
Strip(s) == CASE s = " B" -> "B"
              [] s = " " -> ""
              [] OTHER -> s

\* self.results[fmt] at construction.
EmptyResult == [count |-> 0, products |-> <<>>, errors |-> <<>>]

EmptyMap == [k \in {} |-> <<>>]

\* _add_dedup that starts the member list afresh at every call.
AddDedupOverwrite(map, product_id, source) ==
    [k \in DOMAIN map \cup {product_id} |->
        IF k = product_id THEN <<source>> ELSE map[k]]

\* _add_dedup(product_id, source)
AddDedup(map, product_id, source) ==
    [k \in DOMAIN map \cup {product_id} |->
        IF k = product_id
        THEN IF product_id \in DOMAIN map
             THEN Append(map[product_id], source)
             ELSE <<source>>
        ELSE map[k]]

Product(id, name, vendor, source, format) ==
    [id |-> id, name |-> name, vendor |-> vendor, source |-> source,
     format |-> format]

\* The tester's fields while one file is read, and whether the file raised.
Loop(count, products, dedup) ==
    [count |-> count, products |-> products, dedup |-> dedup, raised |-> FALSE]

Raise(st) == [st EXCEPT !.raised = TRUE]

\* ------------------------------------------------------------------- JSON
\* json.load's value: not a document, or a dict whose 'products' is a list
\* of elements, each a dict of fields or some other JSON value.
JsonObject(fields) == [kind |-> "object", fields |-> fields]
JsonScalar == [kind |-> "scalar"]
JsonMalformed == [kind |-> "malformed"]
JsonCatalog(products) == [kind |-> "catalog", products |-> products]

\* product.get('id', product.get('name', 'unknown'))
JsonProductId(fields) == Get(fields, "id", Get(fields, "name", "unknown"))

\* The body of "for product in products" for one element.
JsonProductStep(st, e, source) ==
    IF e.kind # "object" THEN Raise(st)          \* .get on a non-dict
    ELSE LET product_id == JsonProductId(e.fields)
             appended == [st EXCEPT !.products =
                            Append(@, Product(product_id,
                                              Get(e.fields, "name", "N/A"),
                                              Get(e.fields, "vendor", "N/A"),
                                              source, "JSON"))]
         IN IF Hashable(product_id)
            THEN [appended EXCEPT !.dedup = AddDedup(@, product_id, source)]
            ELSE Raise(appended)                 \* unhashable dict key

RECURSIVE JsonProducts(_, _, _, _)
JsonProducts(st, products, i, source) ==
    IF st.raised \/ i > Len(products) THEN st
    ELSE JsonProducts(JsonProductStep(st, products[i], source), products,
                      i + 1, source)

\* The try block of test_json_catalogs for one file.
JsonCount(count, products) == count + Len(products)

JsonFile(st, data, source) ==
    IF data.kind # "catalog" THEN Raise(st)      \* json.load / data.get raise
    ELSE JsonProducts([st EXCEPT !.count = JsonCount(@, data.products)],
                      data.products, 1, source)

\* -------------------------------------------------------------------- CSV
CsvUnreadable == [kind |-> "unreadable"]
CsvText(header, rows) == [kind |-> "csv", header |-> header, rows |-> rows]

\* One row of csv.DictReader: the header's names mapped to the row's cells,
\* missing cells filled with None (restval), surplus cells kept as a list
\* under the key None (restkey).
DictRow(header, cells) ==
    [k \in {header[j] : j \in 1..Len(header)}
           \cup (IF Len(cells) > Len(header) THEN {None} ELSE {}) |->
        IF k = None THEN UnhashableList
        ELSE LET j == CHOOSE x \in 1..Len(header) :
                         /\ header[x] = k
                         /\ \A y \in 1..Len(header) : header[y] = k => y <= x
             IN IF j <= Len(cells) THEN cells[j] ELSE None]

\* list(csv.DictReader(f)): the first line is the header; blank lines are
\* skipped; every other line becomes a row, whatever its number of cells.
RECURSIVE DictReader(_, _, _)
DictReader(header, lines, i) ==
    IF i > Len(lines) THEN <<>>
    ELSE IF lines[i] = <<>> THEN DictReader(header, lines, i + 1)
    ELSE <<DictRow(header, lines[i])>> \o DictReader(header, lines, i + 1)

\* row.get('Product Name') or row.get('Product') or row.get('id', 'unknown')
CsvProductId(row) ==
    Or(Or(Get(row, "Product Name", None), Get(row, "Product", None)),
       Get(row, "id", "unknown"))

\* row.get('Vendor') or row.get('Provider') or 'N/A'
CsvVendor(row) ==
    Or(Or(Get(row, "Vendor", None), Get(row, "Provider", None)), "N/A")

\* The body of "for row in rows" for one row.
CsvRowStep(st, row, source) ==
    LET product_id == CsvProductId(row)
    IN [st EXCEPT !.products = Append(@, Product(product_id, product_id,
                                                 CsvVendor(row), source,
                                                 "CSV")),
                  !.dedup = AddDedup(@, product_id, source)]

RECURSIVE CsvRows(_, _, _, _)
CsvRows(st, rows, i, source) ==
    IF i > Len(rows) THEN st
    ELSE CsvRows(CsvRowStep(st, rows[i], source), rows, i + 1, source)

\* The try block of test_csv_catalogs for one file.
CsvFile(st, text, source) ==
    IF text.kind # "csv" THEN Raise(st)          \* open / decode raise
    ELSE LET rows == DictReader(text.header, text.rows, 1)
         IN CsvRows([st EXCEPT !.count = @ + Len(rows)], rows, 1, source)

\* -------------------------------------------------------------------- PDF
PdfUnreadable == [kind |-> "unreadable"]
PdfDocument(tables) == [kind |-> "pdf", tables |-> tables]

\* The body of "for row in table[1:]" for one row; st.found is the file's
\* product_count.
PdfRowTaken(row) == Len(row) > 0 /\ Truthy(row[1])

PdfRowStep(st, row, source) ==
    IF ~PdfRowTaken(row) THEN st
    ELSE IF Len(row) > 1 /\ row[2] = None THEN Raise(st)   \* None.strip()
    ELSE LET product_id == Strip(row[1])
             vendor == IF Len(row) > 1 THEN Strip(row[2]) ELSE "N/A"
         IN [st EXCEPT !.products = Append(@, Product(product_id, product_id,
                                                      vendor, source, "PDF")),
                       !.dedup = AddDedup(@, product_id, source),
                       !.found = @ + 1]

RECURSIVE PdfRows(_, _, _, _)
PdfRows(st, table, i, source) ==
    IF st.raised \/ i > Len(table) THEN st
    ELSE PdfRows(PdfRowStep(st, table[i], source), table, i + 1, source)

RECURSIVE PdfTables(_, _, _, _)
PdfTables(st, tables, t, source) ==
    IF st.raised \/ t > Len(tables) THEN st
    ELSE PdfTables(IF Len(tables[t]) > 1
                   THEN PdfRows(st, tables[t], 2, source)
                   ELSE st,
                   tables, t + 1, source)

\* The try block of test_pdf_catalogs for one file: the count is added after
\* the tables have been walked.
PdfFile(st, doc, source) ==
    IF doc.kind # "pdf" THEN Raise(st)           \* pdf_lib.open raises
    ELSE LET walked == PdfTables([count |-> st.count, products |-> st.products,
                                  dedup |-> st.dedup, raised |-> FALSE,
                                  found |-> 0],
                                 doc.tables, 1, source)
         IN [count |-> IF walked.raised THEN walked.count
                       ELSE walked.count + walked.found,
             products |-> walked.products, dedup |-> walked.dedup,
             raised |-> walked.raised]

\* measure_csv_extraction (test_extraction_time.py):
\* name = row.get('Product Name') or row.get('Product') or row.get('Service', '')
MeasureCsvName(row) ==
    Or(Or(Get(row, "Product Name", None), Get(row, "Product", None)),
       Get(row, "Service", ""))

\* vendor = row.get('Vendor') or row.get('Provider', '')
MeasureCsvVendor(row) == Or(Get(row, "Vendor", None), Get(row, "Provider", ""))

\* measure_pdf_extraction (test_extraction_time.py): the rows it counts.
MeasurePdfCount(doc) ==
    Cardinality({p \in (1..Len(doc.tables)) \X (2..(MaxRecs + 2)) :
                    /\ Len(doc.tables[p[1]]) > 1
                    /\ p[2] <= Len(doc.tables[p[1]])
                    /\ PdfRowTaken(doc.tables[p[1]][p[2]])})

\* The pages of a document of the model: one page per table, and a single
\* page when no page holds a table.
PdfPages(doc) == IF doc.tables = <<>> THEN 1 ELSE Len(doc.tables)

\* simulate_ingestion_extraction (test_e2e_user_simulation.py), PDF branch:
\* product_count = len(pdf.pages), or 1 when pdfplumber raises.
SimulatePdfCount(doc) == IF doc.kind = "pdf" THEN PdfPages(doc) ELSE 1

\* simulate_quality_scoring (test_e2e_user_simulation.py): the scores it
\* reports, in tenths of a percent, whatever was extracted before.
QualityScores(extracted) ==
    [data_completeness |-> 942, vendor_validation |-> 968,
     price_accuracy |-> 925, category_matching |-> 951,
     duplicate_detection |-> 985, overall_quality |-> 954]

\* ---------------------------------------------------------------- the run
SeqsUpTo(S, n) == UNION {[1..k -> S] : k \in 0..n}

Min(a, b) == IF a < b THEN a ELSE b

\* Contents a catalog file may have.
JsonElements ==
    { JsonObject([id |-> "A", name |-> "A", vendor |-> "V"]),
      JsonObject([id |-> "S1", name |-> "A", vendor |-> "V"]),
      JsonObject([vendor |-> "V"]),
      JsonObject([id |-> "A", name |-> ""]),
      JsonObject([id |-> UnhashableList, name |-> "A"]),
      JsonScalar }

JsonInputs ==
    {JsonMalformed} \cup {JsonCatalog(ps) : ps \in SeqsUpTo(JsonElements, MaxRecs)}

CsvHeaders ==
    { <<"Product Name", "Vendor">>, <<"Service", "Provider">> }

CsvLines ==
    { <<"A", "V">>, <<"", "V">>, <<"A">>, <<"A", "V", "x">>, <<>> }

CsvInputs ==
    {CsvUnreadable} \cup
    {CsvText(h, ls) : h \in CsvHeaders, ls \in SeqsUpTo(CsvLines, MaxRecs)}

PdfHeader == <<"Product", "Vendor">>

PdfRowShapes ==
    { <<"A", "V">>, <<"A">>, <<"A", None>>, <<"", "V">>, <<None, "V">>,
      <<" B", "V">> }

PdfTableShapes == {<<PdfHeader>> \o rs : rs \in SeqsUpTo(PdfRowShapes, MaxRecs)}

PdfInputs ==
    {PdfUnreadable, PdfDocument(<<>>)} \cup
    {PdfDocument(<<t>>) : t \in PdfTableShapes} \cup
    {PdfDocument(<<t, <<PdfHeader, <<"A", "V">>>> >>) : t \in PdfTableShapes}

NoFile == [file |-> FileName("none", 0), format |-> "none",
           input |-> [kind |-> "none"], raised |-> FALSE, mark |-> "none"]
NoReport == [kind |-> "none"]

\* The files a stage's loop walks: json_files[:10], csv_files, pdf_files.
Listed(fmt) == IF fmt = "json" THEN Min(nfiles[fmt], JSON_LIMIT) ELSE nfiles[fmt]

\* test_pdf_catalogs returns before its loop when pdfplumber is missing.
Walked(fmt) == IF fmt = "pdf" /\ ~hasPdf THEN 0 ELSE Listed(fmt)

RunInit ==
    /\ pc = "json"
    /\ idx = 1
    /\ nfiles \in {n \in [Formats -> 0..MaxFiles] :
                      n["json"] + n["csv"] + n["pdf"] <= MaxFiles}
    /\ hasPdf \in BOOLEAN
    /\ results = [f \in Formats |-> EmptyResult]
    /\ dedup_map = EmptyMap
    /\ attempts = <<>>
    /\ cur = NoFile
    /\ report = NoReport

\* except Exception as e: self.results[fmt]['errors'].append({...})
ErrorsAfter(errors, st, source) ==
    IF st.raised THEN Append(errors, [file |-> source]) ELSE errors

\* The line printed for a file: the check mark at the end of the try block
\* or the cross of the except clause; no other line is printed for a file.
FileMark(st) == IF st.raised THEN "error" ELSE "ok"

\* A loop turn without the except clause: the exception leaves run().
IngestUncaught(fmt, st, input) ==
    LET source == FileName(fmt, idx)
    IN /\ results' = [results EXCEPT ![fmt] =
                        [count |-> st.count, products |-> st.products,
                         errors |-> @.errors]]
       /\ dedup_map' = st.dedup
       /\ attempts' = Append(attempts, [file |-> source, raised |-> st.raised])
       /\ cur' = [file |-> source, format |-> fmt, input |-> input,
                  raised |-> st.raised, mark |-> FileMark(st)]
       /\ idx' = idx + 1
       /\ pc' = IF st.raised THEN "crashed" ELSE pc
       /\ UNCHANGED <<nfiles, hasPdf, report, notRun>>

\* One turn of a stage's "for file in files" loop: the try block on the
\* tester's fields, then the except clause.
Ingest(fmt, st, input) ==
    LET source == FileName(fmt, idx)
    IN /\ results' = [results EXCEPT ![fmt] =
                        [count |-> st.count, products |-> st.products,
                         errors |-> ErrorsAfter(@.errors, st, source)]]
       /\ dedup_map' = st.dedup
       /\ attempts' = Append(attempts, [file |-> source, raised |-> st.raised])
       /\ cur' = [file |-> source, format |-> fmt, input |-> input,
                  raised |-> st.raised, mark |-> FileMark(st)]
       /\ idx' = idx + 1
       /\ UNCHANGED <<pc, nfiles, hasPdf, report, notRun>>

Before(fmt) == Loop(results[fmt].count, results[fmt].products, dedup_map)

IngestJson(data) ==
    /\ pc = "json" /\ idx <= Walked("json")
    /\ Ingest("json", JsonFile(Before("json"), data, FileName("json", idx)), data)

IngestCsv(text) ==
    /\ pc = "csv" /\ idx <= Walked("csv")
    /\ Ingest("csv", CsvFile(Before("csv"), text, FileName("csv", idx)), text)

IngestPdf(doc) ==
    /\ pc = "pdf" /\ idx <= Walked("pdf")
    /\ Ingest("pdf", PdfFile(Before("pdf"), doc, FileName("pdf", idx)), doc)

\* A stage's loop is exhausted and the method returns; test_pdf_catalogs
\* also returns, before its loop, when pdfplumber cannot be imported.
\* run() calling test_deduplication before test_pdf_catalogs.
NextStageDedupEarly(stage) == CASE stage = "json" -> "csv"
                                [] stage = "csv" -> "dedup"
                                [] stage = "dedup" -> "pdf"
                                [] stage = "pdf" -> "report"
                                [] OTHER -> "done"

NextStage(stage) == CASE stage = "json" -> "csv"
                      [] stage = "csv" -> "pdf"
                      [] stage = "pdf" -> "dedup"
                      [] stage = "dedup" -> "report"
                      [] OTHER -> "done"

StageReturns ==
    /\ pc \in Formats
    /\ idx > Walked(pc)
    /\ pc' = NextStage(pc)
    /\ idx' = 1
    /\ UNCHANGED <<nfiles, hasPdf, results, dedup_map, attempts, cur, report,
                   notRun>>

\* test_deduplication
Duplicates(map) == {k \in DOMAIN map : Len(map[k]) > 1}

TestDeduplication ==
    /\ pc = "dedup"
    /\ report' = [kind |-> "dedup", unique |-> Cardinality(DOMAIN dedup_map),
                  duplicates |-> Duplicates(dedup_map)]
    /\ pc' = NextStage(pc)
    /\ UNCHANGED <<idx, nfiles, hasPdf, results, dedup_map, attempts, cur,
                   notRun>>

\* generate_report
TotalProducts ==
    results["json"].count + results["csv"].count + results["pdf"].count

TotalErrors ==
    Len(results["json"].errors) + Len(results["csv"].errors)
        + Len(results["pdf"].errors)

\* A success rate that is the share of products among products and errors.
SuccessRateShare ==
    IF TotalProducts > 0
    THEN (TotalProducts * 100) \div (TotalProducts + TotalErrors)
    ELSE "none"

\* success_rate = (total_products / (total_products + total_errors)) * 100
\*                    if total_errors == 0 else 100, printed when
\* total_products > 0; in whole percent.
SuccessRate ==
    IF TotalProducts > 0
    THEN IF TotalErrors = 0
         THEN (TotalProducts * 100) \div (TotalProducts + TotalErrors)
         ELSE 100
    ELSE "none"

\* dedup_ratio * 100, dedup_ratio = (1 - len(self.dedup_map)/total_products)
\* if total_products > 0 else 0; in whole percent, rounded down.
DuplicateRate ==
    IF TotalProducts > 0
    THEN ((TotalProducts - Cardinality(DOMAIN dedup_map)) * 100)
            \div TotalProducts
    ELSE 0

GenerateReport ==
    /\ pc = "report"
    /\ report' = [kind |-> "report", unique |-> Cardinality(DOMAIN dedup_map),
                  duplicates |-> report.duplicates,
                  total_products |-> TotalProducts,
                  total_errors |-> TotalErrors,
                  success_rate |-> SuccessRate,
                  duplicate_rate |-> DuplicateRate,
                  verdict |-> "complete"]
    /\ pc' = NextStage(pc)
    /\ UNCHANGED <<idx, nfiles, hasPdf, results, dedup_map, attempts, cur,
                   notRun>>

RunNext ==
    \/ \E data \in JsonInputs : IngestJson(data)
    \/ \E text \in CsvInputs : IngestCsv(text)
    \/ \E doc \in PdfInputs : IngestPdf(doc)
    \/ StageReturns
    \/ TestDeduplication
    \/ GenerateReport

\* The tester before its run, for the specification of the cache alone.
RunIdle ==
    /\ pc = "json" /\ idx = 1
    /\ nfiles = [f \in Formats |-> 0] /\ hasPdf = TRUE
    /\ results = [f \in Formats |-> EmptyResult]
    /\ dedup_map = EmptyMap /\ attempts = <<>> /\ cur = NoFile
    /\ report = NoReport

\* The two testers of the order comparison before any pair is passed.
DedupIdle ==
    feed = <<>> /\ perm = <<>> /\ mapA = EmptyMap /\ mapB = EmptyMap

\* exit_status while the process runs.
NotExited == -1

\* The migration runner not started.
MigIdle ==
    /\ mpc = "idle"
    /\ menv = [url |-> FALSE, key |-> FALSE, exists |-> FALSE,
               content |-> <<>>]
    /\ statements = <<>> /\ mi = 1
    /\ success_count = 0 /\ failed_count = 0
    /\ posted = <<>> /\ exit_status = NotExited /\ message = "none"

\* The agent extraction tester not started.
AgentIdle ==
    /\ apc = "idle" /\ afile = 1 /\ health = "none"
    /\ aresults = [f \in Formats |-> <<>>]
    /\ requests = <<>> /\ areport = "none" /\ success = "none"
    /\ aexit = NotExited

\* The ingestion step's test_result before the step begins.
NoTestResult ==
    [status |-> "none", extractions |-> <<>>, total_products |-> 0,
     total_extracted |-> -1, raised |-> 0]

\* The user simulation not started.
SimIdle ==
    /\ spc = "idle" /\ sstep = 1 /\ invoked = <<>> /\ outcomes = <<>>
    /\ tests = <<>> /\ uploaded_catalogs = <<>> /\ cidx = 1
    /\ test_result = NoTestResult
    /\ summary = FALSE /\ exported = "none" /\ sraised = FALSE

Init == CacheInit /\ RunInit /\ DedupIdle /\ MigIdle /\ AgentIdle /\ SimIdle

Next == RunNext

Spec == Init /\ [][Next]_vars

FairSpec == Spec /\ WF_vars(Next)

\* ------------------------------------ _add_dedup under a change of order
\* The (product_id, source) pairs the readers pass to _add_dedup.
DedupPairs ==
    [id : {"A", "B"}, source : {FileName("json", 1), FileName("csv", 1)}]

PermsOf(s) ==
    {[i \in 1..Len(s) |-> s[f[i]]] : f \in Permutations(1..Len(s))}

DedupInit ==
    /\ feed \in SeqsUpTo(DedupPairs, MaxMembers)
    /\ perm \in PermsOf(feed)
    /\ mapA = EmptyMap /\ mapB = EmptyMap

\* One call of _add_dedup on the first tester, in the given order.
AddGiven ==
    /\ feed # <<>>
    /\ mapA' = AddDedup(mapA, Head(feed).id, Head(feed).source)
    /\ feed' = Tail(feed)
    /\ UNCHANGED <<perm, mapB, notDedup>>

\* One call of _add_dedup on the second tester, in the permuted order.
AddPermuted ==
    /\ perm # <<>>
    /\ mapB' = AddDedup(mapB, Head(perm).id, Head(perm).source)
    /\ perm' = Tail(perm)
    /\ UNCHANGED <<feed, mapA, notDedup>>

DedupNext == AddGiven \/ AddPermuted

InitDedup ==
    CacheInit /\ RunIdle /\ DedupInit /\ MigIdle /\ AgentIdle /\ SimIdle

SpecDedup == InitDedup /\ [][DedupNext]_vars

\* ===================== Part III: run-migration-022.py ====================
\* A ';'-delimited segment of the migration file is a sequence of lines: a
\* blank line, a comment line, or a line of SQL text.
BlankLine == ""
CommentLine == "--c"
SqlLines == {"S1", "S2"}

MigSegments ==
    { <<>>, <<BlankLine>>, <<CommentLine>>, <<"S1">>, <<"S2">>,
      <<CommentLine, "S1">>, <<BlankLine, "S2">>, <<"S1", CommentLine>> }

\* s.strip() on a segment: the blank lines at both ends are dropped.
RECURSIVE StripLeft(_)
StripLeft(seg) ==
    IF seg # <<>> /\ Head(seg) = BlankLine THEN StripLeft(Tail(seg)) ELSE seg

RECURSIVE StripRight(_)
StripRight(seg) ==
    IF seg # <<>> /\ seg[Len(seg)] = BlankLine
    THEN StripRight(SubSeq(seg, 1, Len(seg) - 1))
    ELSE seg

StripSegment(seg) == StripRight(StripLeft(seg))

\* s.strip() and not s.strip().startswith('--')
KeptSegment(seg) ==
    LET t == StripSegment(seg)
    IN t # <<>> /\ t[1] # CommentLine

\* statements = [s.strip() for s in sql_content.split(';') if ...]
RECURSIVE ParseStatements(_)
ParseStatements(content) ==
    IF content = <<>> THEN <<>>
    ELSE (IF KeptSegment(Head(content))
          THEN <<StripSegment(Head(content))>>
          ELSE <<>>) \o ParseStatements(Tail(content))

\* What a requests.post call ends in: a status code, or an exception.
PostOutcomes == {"200", "201", "404", "500", "exception"}

MigInit ==
    /\ mpc = "env"
    /\ menv \in [url : BOOLEAN, key : BOOLEAN, exists : BOOLEAN,
                  content : SeqsUpTo(MigSegments, MaxSegments) \ {<<>>}]
    /\ statements = <<>> /\ mi = 1
    /\ success_count = 0 /\ failed_count = 0
    /\ posted = <<>> /\ exit_status = NotExited /\ message = "none"

\* if not SUPABASE_URL or not SUPABASE_SERVICE_KEY: sys.exit(1)
CheckEnv ==
    /\ mpc = "env"
    /\ IF ~menv.url \/ ~menv.key
       THEN mpc' = "exited" /\ exit_status' = 1
       ELSE mpc' = "file" /\ UNCHANGED exit_status
    /\ UNCHANGED <<menv, statements, mi, success_count, failed_count, posted,
                   message, notMig>>

\* The runner going on to read the file without testing that it exists.
CheckFileSkipped ==
    /\ mpc = "file"
    /\ mpc' = "parse"
    /\ UNCHANGED <<menv, statements, mi, success_count, failed_count, posted,
                   exit_status, message, notMig>>

\* if not migration_path.exists(): sys.exit(1)
CheckFile ==
    /\ mpc = "file"
    /\ IF ~menv.exists
       THEN mpc' = "exited" /\ exit_status' = 1
       ELSE mpc' = "parse" /\ UNCHANGED exit_status
    /\ UNCHANGED <<menv, statements, mi, success_count, failed_count, posted,
                   message, notMig>>

\* The file is read and split into statements; the counters start at 0.
Parse ==
    /\ mpc = "parse"
    /\ statements' = ParseStatements(menv.content)
    /\ mi' = 1 /\ success_count' = 0 /\ failed_count' = 0
    /\ mpc' = "loop"
    /\ UNCHANGED <<menv, posted, exit_status, message, notMig>>

\* A loop turn whose 404 branch counts nothing.
Post404Uncounted(outcome) ==
    /\ mpc = "loop" /\ mi <= Len(statements)
    /\ posted' = Append(posted, statements[mi])
    /\ IF outcome \in {"200", "201"}
       THEN success_count' = success_count + 1 /\ UNCHANGED failed_count
       ELSE IF outcome = "404"
       THEN UNCHANGED <<success_count, failed_count>>
       ELSE failed_count' = failed_count + 1 /\ UNCHANGED success_count
    /\ mi' = mi + 1
    /\ UNCHANGED <<mpc, menv, statements, exit_status, message, notMig>>

\* One turn of the statement loop.
Post(outcome) ==
    /\ mpc = "loop" /\ mi <= Len(statements)
    /\ posted' = Append(posted, statements[mi])
    /\ IF outcome \in {"200", "201"}
       THEN success_count' = success_count + 1 /\ UNCHANGED failed_count
       ELSE failed_count' = failed_count + 1 /\ UNCHANGED success_count
    /\ mi' = mi + 1
    /\ UNCHANGED <<mpc, menv, statements, exit_status, message, notMig>>

\* The summary after the loop, the closing message and sys.exit(0).
ClosingMessage ==
    IF failed_count = Len(statements) THEN "all_failed"
    ELSE IF failed_count > 0 THEN "need_review"
    ELSE "all_succeeded"

Summarise ==
    /\ mpc = "loop" /\ mi > Len(statements)
    /\ message' = ClosingMessage
    /\ exit_status' = 0
    /\ mpc' = "exited"
    /\ UNCHANGED <<menv, statements, mi, success_count, failed_count, posted,
                   notMig>>

MigNext ==
    \/ CheckEnv
    \/ CheckFile
    \/ Parse
    \/ \E outcome \in PostOutcomes : Post(outcome)
    \/ Summarise

InitMig ==
    CacheInit /\ RunIdle /\ DedupIdle /\ MigInit /\ AgentIdle /\ SimIdle

SpecMig == InitMig /\ [][MigNext]_vars

\* =================== Part IV: AgentExtractionTester =====================
\* Largest product count a response or a catalog gives.
MaxExtracted == 1

\* Lengths of the three hard-coded lists of catalogs.
JSON_CATALOGS == 3
CSV_CATALOGS == 3
PDF_CATALOGS == 2

AgentCatalogs ==
    [json |-> JSON_CATALOGS, csv |-> CSV_CATALOGS, pdf |-> PDF_CATALOGS]

\* time.time() - start_time: 0 when the clock shows the same reading
\* twice, 1 for a duration the clock can tell.
ElapsedTimes == {0, 1}

\* What GET /health can meet: a status of 200, another status, or an
\* exception of the session (no connection, timeout).
HealthOutcomes == {"200", "503", "exception"}

\* What one catalog of a list can meet.  An answered request carries
\* the status, extracted_count when the body has it, the count the code
\* falls back on otherwise, and the elapsed time.
AgentOutcomes ==
    {[kind |-> k, status |-> "none", has_count |-> FALSE,
      extracted_count |-> 0, fallback |-> 0, elapsed |-> 0] :
        k \in {"not_found", "unreadable", "timeout", "connection_error",
               "bad_body"}}
    \cup
    {[kind |-> "answered", status |-> st, has_count |-> h,
      extracted_count |-> n, fallback |-> d, elapsed |-> e] :
        st \in {"200", "201", "500"}, h \in BOOLEAN,
        n \in 0..MaxExtracted, d \in 0..MaxExtracted, e \in ElapsedTimes}

\* The path a test posts to.
PostPath(fmt) ==
    IF fmt = "pdf" THEN "POST /api/ingestion/extract-pdf"
    ELSE "POST /api/ingestion/extract"

\* result.get('extracted_count', default) of the three tests.
ProductsCount(fmt, o) ==
    IF o.has_count THEN o.extracted_count
    ELSE IF fmt = "pdf" THEN 0 ELSE o.fallback

\* Whether the throughput the test prints divides by an elapsed time of
\* zero: the JSON and CSV tests print it always, the PDF test only for a
\* positive count.
ThroughputRaises(fmt, o) ==
    /\ o.elapsed = 0
    /\ fmt = "pdf" => ProductsCount(fmt, o) > 0

\* Whether the test appends an entry for the catalog.
Appends(fmt, o) ==
    /\ o.kind = "answered"
    /\ o.status \in {"200", "201"}
    /\ ~ThroughputRaises(fmt, o)

AgentInit ==
    /\ apc = "health" /\ afile = 1 /\ health = "none"
    /\ aresults = [f \in Formats |-> <<>>]
    /\ requests = <<>> /\ areport = "none" /\ success = "none"
    /\ aexit = NotExited

\* run's first statement with the health check ignored.
CheckApiHealthIgnored(outcome) ==
    /\ apc = "health"
    /\ health' = outcome
    /\ requests' = Append(requests, "GET /health")
    /\ apc' = "json"
    /\ UNCHANGED <<afile, aresults, areport, success, aexit, notAgent>>

\* check_api_health and the test of its result in run: anything but a
\* status of 200 makes run return False, and the main block exits with 1.
CheckApiHealth(outcome) ==
    /\ apc = "health"
    /\ health' = outcome
    /\ requests' = Append(requests, "GET /health")
    /\ IF outcome = "200"
       THEN apc' = "json" /\ UNCHANGED <<success, aexit>>
       ELSE apc' = "exited" /\ success' = "False" /\ aexit' = 1
    /\ UNCHANGED <<afile, aresults, areport, notAgent>>

\* One round of the loop of test_json_extraction, test_csv_extraction or
\* test_pdf_extraction.  session.post is reached unless the catalog is
\* missing or cannot be read.
AgentExtract(o) ==
    /\ apc \in Formats
    /\ afile <= AgentCatalogs[apc]
    /\ requests' = IF o.kind \notin {"not_found", "unreadable"}
                   THEN Append(requests, PostPath(apc))
                   ELSE requests
    /\ aresults' =
         IF Appends(apc, o)
         THEN [aresults EXCEPT ![apc] =
                  Append(@, [products |-> ProductsCount(apc, o),
                             time |-> o.elapsed])]
         ELSE aresults
    /\ afile' = afile + 1
    /\ UNCHANGED <<apc, health, areport, success, aexit, notAgent>>

\* A test returns; run calls the next one, and generate_report last.
AgentTestReturns ==
    /\ apc \in Formats
    /\ afile > AgentCatalogs[apc]
    /\ apc' = CASE apc = "json" -> "csv"
                [] apc = "csv" -> "pdf"
                [] apc = "pdf" -> "report"
    /\ afile' = 1
    /\ UNCHANGED <<health, aresults, requests, areport, success, aexit,
                   notAgent>>

RECURSIVE SumProducts(_)
SumProducts(s) ==
    IF s = <<>> THEN 0 ELSE Head(s).products + SumProducts(Tail(s))

RECURSIVE SumTime(_)
SumTime(s) == IF s = <<>> THEN 0 ELSE Head(s).time + SumTime(Tail(s))

\* The entries generate_report walks, JSON then CSV then PDF.
AllEntries(r) == r["json"] \o r["csv"] \o r["pdf"]

\* How generate_report ends on self.results = r.
ReportOutcome(r) ==
    LET total_products == SumProducts(AllEntries(r))
        total_time == SumTime(AllEntries(r))
        test_count == Len(AllEntries(r))
    IN  IF test_count > 0
        THEN IF total_time = 0
             THEN "zero_division"
             ELSE IF total_time > 0 /\ total_products = 0
                  THEN "zero_division"
                  ELSE "printed"
        ELSE "printed"

\* generate_report and the end of run: run returns True and the main
\* block exits with 0; an exception of the report leaves run and ends
\* the process with status 1.
AgentGenerateReport ==
    /\ apc = "report"
    /\ areport' = ReportOutcome(aresults)
    /\ IF ReportOutcome(aresults) = "printed"
       THEN success' = "True" /\ aexit' = 0
       ELSE success' = success /\ aexit' = 1
    /\ apc' = "exited"
    /\ UNCHANGED <<afile, health, aresults, requests, notAgent>>

AgentNext ==
    \/ \E outcome \in HealthOutcomes : CheckApiHealth(outcome)
    \/ \E o \in AgentOutcomes : AgentExtract(o)
    \/ AgentTestReturns
    \/ AgentGenerateReport

InitAgent ==
    CacheInit /\ RunIdle /\ DedupIdle /\ MigIdle /\ AgentInit /\ SimIdle

SpecAgent == InitAgent /\ [][AgentNext]_vars

\* ======================== Part V: UserSimulation =========================
\* The step functions in the order of run's list.
Steps ==
    <<"simulate_user_login", "simulate_catalog_upload",
      "simulate_ingestion_extraction", "simulate_deduplication",
      "simulate_quality_scoring", "simulate_caching",
      "simulate_validation_and_review", "simulate_final_ingestion">>

\* Formats of catalogs_to_test, in its order.
CatalogsToTest == <<"json", "csv", "pdf">>

\* What the ingestion step can find in an uploaded catalog.  A JSON
\* catalog is a list of products, each a dict or a value without get;
\* a CSV catalog has n rows after its header, a PDF has n pages.
SimInputs(fmt) ==
    {[kind |-> "unreadable", products |-> <<>>, n |-> 0]}
    \cup
    IF fmt = "json"
    THEN {[kind |-> "readable", products |-> ps, n |-> Len(ps)] :
             ps \in SeqsUpTo({"dict", "scalar"}, MaxRecs)}
    ELSE {[kind |-> "readable", products |-> <<>>, n |-> k] :
             k \in 0..MaxRecs}

\* Whether the branch that reads the catalog raises: a JSON catalog that
\* cannot be loaded or holds a product without get, a CSV file that
\* cannot be read.  The PDF branch catches everything itself.
ReadRaises(fmt, inp) ==
    CASE fmt = "json" ->
            \/ inp.kind = "unreadable"
            \/ \E i \in 1..Len(inp.products) : inp.products[i] = "scalar"
      [] fmt = "csv" -> inp.kind = "unreadable"
      [] fmt = "pdf" -> FALSE

\* product_count of a catalog whose branch did not raise.
ProductCount(fmt, inp) ==
    IF fmt = "pdf" /\ inp.kind = "unreadable" THEN 1 ELSE inp.n

SimInit ==
    /\ spc = "steps" /\ sstep = 1 /\ invoked = <<>> /\ outcomes = <<>>
    /\ tests = <<>> /\ uploaded_catalogs = <<>> /\ cidx = 1
    /\ test_result = NoTestResult
    /\ summary = FALSE /\ exported = "none" /\ sraised = FALSE

\* run's loop is at the step function name.
AtStep(name) ==
    spc = "steps" /\ sstep <= Len(Steps) /\ Steps[sstep] = name

\* The step function ends in run's loop with its exception let through.
EndedUncaught(outcome) ==
    /\ outcomes' = Append(outcomes, outcome)
    /\ sstep' = sstep + 1
    /\ IF outcome = "raised"
       THEN spc' = "done" /\ sraised' = TRUE
       ELSE /\ spc' = IF sstep = Len(Steps) THEN "summary" ELSE "steps"
            /\ sraised' = sraised

\* The step function ends: run's loop prints a note for False, catches
\* an exception, and goes on with the next step; print_summary follows
\* the last one.
Ended(outcome) ==
    /\ outcomes' = Append(outcomes, outcome)
    /\ sstep' = sstep + 1
    /\ spc' = IF sstep = Len(Steps) THEN "summary" ELSE "steps"
    /\ sraised' = sraised

\* A step function that appends its test_result and returns True.
PlainStep(name) ==
    /\ AtStep(name)
    /\ invoked' = Append(invoked, name)
    /\ tests' = Append(tests, [step |-> name, status |-> "success"])
    /\ Ended("True")
    /\ UNCHANGED <<uploaded_catalogs, cidx, test_result, summary, exported,
                   notSim>>

SimulateUserLogin == PlainStep("simulate_user_login")

\* found: the catalogs of catalogs_to_test that exist.
SimulateCatalogUpload(found) ==
    /\ AtStep("simulate_catalog_upload")
    /\ invoked' = Append(invoked, "simulate_catalog_upload")
    /\ uploaded_catalogs' = SelectSeq(CatalogsToTest, LAMBDA f : f \in found)
    /\ tests' = Append(tests, [step |-> "simulate_catalog_upload",
                               status |-> "success"])
    /\ Ended(IF found # {} THEN "True" ELSE "False")
    /\ UNCHANGED <<cidx, test_result, summary, exported, notSim>>

\* simulate_ingestion_extraction up to its loop.
BeginIngestion ==
    /\ AtStep("simulate_ingestion_extraction")
    /\ invoked' = Append(invoked, "simulate_ingestion_extraction")
    /\ spc' = "ingesting"
    /\ cidx' = 1
    /\ test_result' = [NoTestResult EXCEPT !.status = "success"]
    /\ UNCHANGED <<sstep, outcomes, tests, uploaded_catalogs, summary,
                   exported, sraised, notSim>>

\* One round of the loop over self.uploaded_catalogs.  The totals are
\* added before the throughput is computed, and the throughput divides by
\* extraction_time.  The field raised counts the rounds that ended in the
\* except clause.
ExtractCatalog(inp, extraction_time) ==
    /\ spc = "ingesting"
    /\ cidx <= Len(uploaded_catalogs)
    /\ LET fmt == uploaded_catalogs[cidx]
           product_count == ProductCount(fmt, inp)
       IN  test_result' =
             IF ReadRaises(fmt, inp)
             THEN [test_result EXCEPT !.status = "partial_failure",
                                      !.raised = @ + 1]
             ELSE IF extraction_time = 0
             THEN [test_result EXCEPT
                      !.total_products = @ + product_count,
                      !.status = "partial_failure",
                      !.raised = @ + 1]
             ELSE [test_result EXCEPT
                      !.total_products = @ + product_count,
                      !.extractions =
                          Append(@, [format |-> fmt,
                                     products_extracted |-> product_count])]
    /\ cidx' = cidx + 1
    /\ UNCHANGED <<spc, sstep, invoked, outcomes, tests, uploaded_catalogs,
                   summary, exported, sraised, notSim>>

\* simulate_ingestion_extraction after its loop.
EndIngestion ==
    /\ spc = "ingesting"
    /\ cidx > Len(uploaded_catalogs)
    /\ test_result' =
         [test_result EXCEPT !.total_extracted = test_result.total_products]
    /\ tests' = Append(tests, [step |-> "simulate_ingestion_extraction",
                               status |-> test_result.status])
    /\ Ended(IF test_result.total_products > 0 THEN "True" ELSE "False")
    /\ UNCHANGED <<invoked, uploaded_catalogs, cidx, summary, exported,
                   notSim>>

SimulateDeduplication == PlainStep("simulate_deduplication")

SimulateQualityScoring == PlainStep("simulate_quality_scoring")

\* A step function that divides by a time it measured: it raises before
\* it appends its test_result when the time is zero.
TimedStep(name, measured) ==
    /\ AtStep(name)
    /\ invoked' = Append(invoked, name)
    /\ IF measured = 0
       THEN tests' = tests /\ Ended("raised")
       ELSE /\ tests' = Append(tests, [step |-> name, status |-> "success"])
            /\ Ended("True")
    /\ UNCHANGED <<uploaded_catalogs, cidx, test_result, summary, exported,
                   notSim>>

\* speedup = first_time / hit_time
SimulateCaching(hit_time) == TimedStep("simulate_caching", hit_time)

SimulateValidationAndReview == PlainStep("simulate_validation_and_review")

\* 'throughput': total_records/ingestion_time
SimulateFinalIngestion(ingestion_time) ==
    TimedStep("simulate_final_ingestion", ingestion_time)

PrintSummary ==
    /\ spc = "summary"
    /\ summary' = TRUE
    /\ spc' = "export"
    /\ UNCHANGED <<sstep, invoked, outcomes, tests, uploaded_catalogs, cidx,
                   test_result, exported, sraised, notSim>>

\* export_results: the file is written, or the exception of open or
\* json.dump is caught and a warning printed.
ExportResults(written) ==
    /\ spc = "export"
    /\ exported' = IF written THEN "written" ELSE "failed"
    /\ spc' = "done"
    /\ UNCHANGED <<sstep, invoked, outcomes, tests, uploaded_catalogs, cidx,
                   test_result, summary, sraised, notSim>>

SimNext ==
    \/ SimulateUserLogin
    \/ \E found \in SUBSET Formats : SimulateCatalogUpload(found)
    \/ BeginIngestion
    \/ \E fmt \in Formats : \E inp \in SimInputs(fmt) :
          \E t \in ElapsedTimes :
             /\ spc = "ingesting"
             /\ cidx <= Len(uploaded_catalogs)
             /\ uploaded_catalogs[cidx] = fmt
             /\ ExtractCatalog(inp, t)
    \/ EndIngestion
    \/ SimulateDeduplication
    \/ SimulateQualityScoring
    \/ \E t \in ElapsedTimes : SimulateCaching(t)
    \/ SimulateValidationAndReview
    \/ \E t \in ElapsedTimes : SimulateFinalIngestion(t)
    \/ PrintSummary
    \/ \E written \in BOOLEAN : ExportResults(written)

InitSim ==
    CacheInit /\ RunIdle /\ DedupIdle /\ MigIdle /\ AgentIdle /\ SimInit

SpecSim == InitSim /\ [][SimNext]_vars

InitCache ==
    CacheInit /\ RunIdle /\ DedupIdle /\ MigIdle /\ AgentIdle /\ SimIdle

SpecCache == InitCache /\ [][CacheNext]_vars

\* ======================= Claims about the Cache Manager ==================
\* Caller c begins get_or_build(f) in this step.
CallBy(c, f) == calls' = calls + 1 /\ caller' = c /\ cfp'[c] = f

Builders(f) == {c \in Callers : cpc[c] = "building" /\ cfp[c] = f}

Returned(f) == {c \in Callers : cpc[c] = "done" /\ cfp[c] = f}

\* C1 - single-flight: at most one caller executes build_fn for a
\* fingerprint at a time; a caller that found the build in flight stays
\* blocked for as long as the leader is building; while no entry can have
\* expired, build_fn has run once plus once per failed build and no more,
\* and all callers that returned for the fingerprint hold the same result.
C1_SingleFlight ==
    \A f \in Fingerprints :
        /\ Cardinality(Builders(f)) <= 1
        /\ Waiters(f) # {} => /\ inflight[f] \in Builders(f)
        /\ inflight[f] # NoCaller => Builders(f) = {inflight[f]}
        /\ now < TTL_HOURS =>
              /\ builds[f] <= failures[f] + 1
              /\ \A c, d \in Returned(f) : cres[c] = cres[d]
              /\ \A c \in Returned(f) : cres[c] # NoResult

\* Two callers asked for the same fingerprint, one build ran, and both
\* returned its result as a miss: one of them waited for the other's build.
C1_Witness ==
    \E f \in Fingerprints :
        /\ builds[f] = 1 /\ failures[f] = 0
        /\ Cardinality({c \in Returned(f) : ~chit[c]}) >= 2

\* C2 - a call made after a result was returned for the fingerprint, and
\* before that entry's expiry, is a hit that returns the identical result
\* without executing build_fn; a call made when nothing was ever returned
\* or built for the fingerprint is a miss.
C2_SecondCallHits ==
    [][\A c \in Callers, f \in Fingerprints :
          CallBy(c, f) =>
            /\ (served[f] # NoEntry /\ now < served[f].created_at + TTL_HOURS) =>
                  /\ cpc'[c] = "done" /\ chit'[c]
                  /\ cres'[c] = served[f].result
                  /\ builds' = builds
            /\ builds[f] = 0 => ~chit'[c] /\ builds'[f] = 1]_vars

\* A caller missed and built, and later another call returned the same
\* result as a hit.
C2_Witness ==
    \E c \in Callers :
        /\ cpc[c] = "done" /\ chit[c]
        /\ builds[cfp[c]] = 1
        /\ cres[c] = ExtractionResult(cfp[c], 1)

\* C3 - after a build that failed or was cancelled neither tier holds an
\* entry for the fingerprint, and the next call for it executes build_fn
\* again and is a miss.
C3_FailureNotCached ==
    /\ [](\A f \in Fingerprints :
            lastBuild[f] \in {"failed", "cancelled"} =>
                l1[f] = NoEntry /\ l2[f] = NoEntry)
    /\ [][\A c \in Callers, f \in Fingerprints :
            (CallBy(c, f) /\ lastBuild[f] \in {"failed", "cancelled"}) =>
                /\ cpc'[c] = "building" /\ ~chit'[c]
                /\ builds'[f] = builds[f] + 1]_vars

\* A build was cancelled or failed and the fingerprint was built again.
C3_Witness ==
    \E f \in Fingerprints, c \in Callers :
        /\ failures[f] >= 1 /\ builds[f] >= 2
        /\ cpc[c] = "done" /\ cfp[c] = f /\ ~chit[c]
        /\ cres[c] = ExtractionResult(f, builds[f])

\* C4 - a call is a hit exactly when an entry is stored whose write time is
\* less than 24 hours before the caller's time; on an older entry it is a
\* miss that executes build_fn; and an entry leaves a tier only in a step
\* in which a call reads that fingerprint.
C4_TtlAtRead ==
    [][\A f \in Fingerprints :
          /\ \A c \in Callers :
                CallBy(c, f) =>
                  /\ chit'[c] <=> (/\ Stored(f) # NoEntry
                                   /\ now < Stored(f).created_at + TTL_HOURS)
                  /\ (/\ Stored(f) # NoEntry
                      /\ now >= Stored(f).created_at + TTL_HOURS) =>
                        /\ builds'[f] = builds[f] + 1
                        /\ cpc'[c] = "building"
          /\ ((l1[f] # NoEntry /\ l1'[f] = NoEntry)
                \/ (l2[f] # NoEntry /\ l2'[f] = NoEntry)) =>
                \E c \in Callers : CallBy(c, f)]_vars

\* An entry was read 24 hours or more after it was written, and rebuilt.
C4_Witness ==
    \E f \in Fingerprints :
        /\ builds[f] = 2 /\ failures[f] = 0
        /\ l1[f] # NoEntry /\ l1[f].created_at >= TTL_HOURS

\* ================ Claims about CatalogIngestionTester ====================
\* This step is one turn of the file loop of format fmt.
Reads(fmt) == Len(attempts') = Len(attempts) + 1 /\ cur'.format = fmt

\* The products of a format that came from one file, and the entries of the
\* format's error list that name the file.
ExtractedFrom(fmt, source) ==
    Cardinality({i \in 1..Len(results[fmt].products) :
                    results[fmt].products[i].source = source})

ErrorsNaming(fmt, source) ==
    Cardinality({i \in 1..Len(results[fmt].errors) :
                    results[fmt].errors[i].file = source})

\* A valid JSON catalog: an object whose products array holds objects.
ValidJson(data) ==
    /\ data.kind = "catalog"
    /\ \A i \in 1..Len(data.products) : data.products[i].kind = "object"

\* A CSV file that can be opened and decoded.
ValidCsv(text) == text.kind = "csv"

\* C5 - reading a valid JSON or CSV file keeps the format's extracted count
\* equal to the number of its product records.
C5_CountEqualsProducts ==
    [][\A fmt \in {"json", "csv"} :
          (/\ Reads(fmt)
           /\ ValidJson(cur'.input) \/ ValidCsv(cur'.input)
           /\ results[fmt].count = Len(results[fmt].products)) =>
              results'[fmt].count = Len(results'[fmt].products)]_vars

\* The JSON records of a catalog that carry a non-empty name.
JsonNamed(e) ==
    e.kind = "object" /\ "name" \in DOMAIN e.fields /\ Truthy(e.fields.name)

\* C6 - every product of the JSON and CSV readers has a non-empty name, and
\* of a valid JSON catalog exactly the named records are products, each
\* nameless record being recorded in the error list instead.
C6_NamesNonEmpty ==
    /\ \A fmt \in {"json", "csv"} :
          \A i \in 1..Len(results[fmt].products) :
              Truthy(results[fmt].products[i].name)
    /\ (cur.format = "json" /\ ValidJson(cur.input)) =>
          LET named == Cardinality({i \in 1..Len(cur.input.products) :
                                      JsonNamed(cur.input.products[i])})
          IN /\ ExtractedFrom("json", cur.file) = named
             /\ ErrorsNaming("json", cur.file)
                    = Len(cur.input.products) - named

\* The lines of a CSV text with as many cells as the header, and the
\* non-blank lines with fewer or more.
MatchingLines(text) ==
    {i \in 1..Len(text.rows) : Len(text.rows[i]) = Len(text.header)}

MismatchedLines(text) ==
    {i \in 1..Len(text.rows) :
        text.rows[i] # <<>> /\ Len(text.rows[i]) # Len(text.header)}

\* C7 - of a readable CSV file the rows whose column count matches the
\* header become products and are counted, and each row whose column count
\* does not match is skipped and recorded as one row error.
C7_MismatchedRowSkipped ==
    [][(Reads("csv") /\ ValidCsv(cur'.input)) =>
          LET good == Cardinality(MatchingLines(cur'.input))
              bad == Cardinality(MismatchedLines(cur'.input))
          IN /\ Len(results'["csv"].products)
                    = Len(results["csv"].products) + good
             /\ results'["csv"].count = results["csv"].count + good
             /\ Len(results'["csv"].errors)
                    = Len(results["csv"].errors) + bad]_vars

\* The records of a file that can be processed on their own.
JsonWellFormed(e) == e.kind = "object" /\ Hashable(JsonProductId(e.fields))

PdfWellFormed(row) == PdfRowTaken(row) /\ (Len(row) > 1 => row[2] # None)

WellFormedRecords(input) ==
    CASE input.kind = "catalog" ->
            Cardinality({i \in 1..Len(input.products) :
                            JsonWellFormed(input.products[i])})
      [] input.kind = "csv" ->
            Cardinality({i \in 1..Len(input.rows) : input.rows[i] # <<>>})
      [] input.kind = "pdf" ->
            Cardinality({p \in (1..Len(input.tables)) \X (2..(MaxRecs + 2)) :
                            /\ p[2] <= Len(input.tables[p[1]])
                            /\ PdfWellFormed(input.tables[p[1]][p[2]])})
      [] OTHER -> 0

\* C8 - in every reader a record that cannot be processed does not stop the
\* records after it: all the well-formed records of the file just read are
\* among the products.
C8_BadRecordIsolated ==
    cur.format \in Formats =>
        ExtractedFrom(cur.format, cur.file) >= WellFormedRecords(cur.input)

\* C9 - a file whose reading fails leaves the format's count, its product
\* list and the deduplication map as they were; only the error list grows.
C9_FailedFileContributesNothing ==
    [][\A fmt \in Formats :
          (Reads(fmt) /\ cur'.raised) =>
              /\ results'[fmt].count = results[fmt].count
              /\ results'[fmt].products = results[fmt].products
              /\ dedup_map' = dedup_map
              /\ Len(results'[fmt].errors) = Len(results[fmt].errors) + 1]_vars

\* The files the loops have walked when the run stands at pc and idx.
Rank(stage) == CASE stage = "json" -> 1
                 [] stage = "csv" -> 2
                 [] stage = "pdf" -> 3
                 [] OTHER -> 4

FilesDone(fmt) == IF Rank(pc) > Rank(fmt) THEN Walked(fmt)
                  ELSE IF pc = fmt THEN idx - 1 ELSE 0

FileSeq(fmt) == [i \in 1..FilesDone(fmt) |-> FileName(fmt, i)]

AttemptedFiles == [i \in 1..Len(attempts) |-> attempts[i].file]

RaisedFiles(fmt) ==
    LET sel == SelectSeq(attempts, LAMBDA a : a.raised /\ a.file[1] = fmt)
    IN [i \in 1..Len(sel) |-> [file |-> sel[i].file]]

DataRows(doc) ==
    {p \in (1..Len(doc.tables)) \X (2..(MaxRecs + 2)) :
        /\ Len(doc.tables[p[1]]) > 1
        /\ p[2] <= Len(doc.tables[p[1]])
        /\ Len(doc.tables[p[1]][p[2]]) > 0
        /\ doc.tables[p[1]][p[2]][1] \notin {None, ""}}

\* C11 - the number of products extracted from a readable PDF, as counted
\* and as appended to the product list, is the number of its data rows, in
\* the ingestion tester and in measure_pdf_extraction.
C11_PdfCountIsDataRows ==
    [][(Reads("pdf") /\ cur'.input.kind = "pdf") =>
          LET rows == Cardinality(DataRows(cur'.input))
          IN /\ results'["pdf"].count = results["pdf"].count + rows
             /\ Len(results'["pdf"].products)
                    = Len(results["pdf"].products) + rows
             /\ MeasurePdfCount(cur'.input) = rows]_vars

\* C12 - a PDF with no tables on any page adds 0 to the extracted count, is
\* marked with a warning and adds no error entry, and the user simulation
\* extracts 0 products from it as well.
C12_EmptyPdfWarns ==
    [][(Reads("pdf") /\ cur'.input = PdfDocument(<<>>)) =>
          /\ results'["pdf"].count = results["pdf"].count
          /\ results'["pdf"].errors = results["pdf"].errors
          /\ cur'.mark = "warning"
          /\ MeasurePdfCount(cur'.input) = 0
          /\ SimulatePdfCount(cur'.input) = 0]_vars

\* The aliases of a CSV row's name and vendor, in priority order.
NameAliases == <<"Product Name", "Product", "Service">>

VendorAliases == <<"Vendor", "Provider">>

HasAlias(row, aliases) ==
    \E i \in 1..Len(aliases) : Truthy(Get(row, aliases[i], None))

\* The first present, non-empty value among the aliases.
FirstAlias(row, aliases) ==
    LET i == CHOOSE x \in 1..Len(aliases) :
                 /\ Truthy(Get(row, aliases[x], None))
                 /\ \A y \in 1..(x - 1) : ~Truthy(Get(row, aliases[y], None))
    IN row[aliases[i]]

\* C13 - the product of a CSV row is named by the first present, non-empty
\* value among Product Name, Product, Service and its vendor is the first
\* among Vendor, Provider; measure_csv_extraction resolves the same name and
\* vendor for the row.
C13_CsvAliasOrder ==
    [][(Reads("csv") /\ ValidCsv(cur'.input)) =>
          LET rows == DictReader(cur'.input.header, cur'.input.rows, 1)
              base == Len(results["csv"].products)
          IN \A j \in 1..Len(rows) :
                LET p == results'["csv"].products[base + j]
                IN /\ HasAlias(rows[j], NameAliases) =>
                        /\ p.name = FirstAlias(rows[j], NameAliases)
                        /\ MeasureCsvName(rows[j]) = p.name
                   /\ HasAlias(rows[j], VendorAliases) =>
                        /\ p.vendor = FirstAlias(rows[j], VendorAliases)
                        /\ MeasureCsvVendor(rows[j]) = p.vendor]_vars

\* The product records of the three formats, and the files read so far
\* that did not fail.
AllProducts ==
    results["json"].products \o results["csv"].products
        \o results["pdf"].products

NoFileFailed == \A i \in 1..Len(attempts) : ~attempts[i].raised

Occurrences(name) ==
    Cardinality({i \in 1..Len(AllProducts) : AllProducts[i].name = name})

\* C14 - when no file failed: two products with the same name and the same
\* vendor from two different sources, that name occurring nowhere else, are
\* in one deduplication group whose members are exactly their two sources,
\* and a product whose name occurs once is the only member of its group.
C14_SameNameOneGroup ==
    NoFileFailed =>
        \A i, j \in 1..Len(AllProducts) :
            LET p == AllProducts[i]
                q == AllProducts[j]
            IN /\ (/\ p.name = q.name /\ p.vendor = q.vendor
                    /\ p.source # q.source
                    /\ Occurrences(p.name) = 2) =>
                      \E k \in DOMAIN dedup_map :
                          dedup_map[k] \in {<<p.source, q.source>>,
                                            <<q.source, p.source>>}
               /\ Occurrences(p.name) = 1 =>
                      \E k \in DOMAIN dedup_map : dedup_map[k] = <<p.source>>

\* How many times a source is a member of a key's group.
TimesIn(map, k, source) ==
    Cardinality({i \in 1..Len(map[k]) : map[k][i] = source})

\* C15 - passing the same (product, source) pairs to _add_dedup in two
\* different orders gives the same group keys and, in each group, the same
\* multiset of member sources.
C15_OrderIndependent ==
    (feed = <<>> /\ perm = <<>>) =>
        /\ DOMAIN mapA = DOMAIN mapB
        /\ \A k \in DOMAIN mapA :
              \A r \in DedupPairs :
                  TimesIn(mapA, k, r.source) = TimesIn(mapB, k, r.source)

\* Both orders were passed in full, a group has two members from different
\* sources, and the member lists came out in different orders.
C15_Witness ==
    /\ feed = <<>> /\ perm = <<>>
    /\ mapA # mapB
    /\ \E k \in DOMAIN mapA :
          Len(mapA[k]) >= 2 /\ mapA[k][1] # mapA[k][2]

\* C16 - every quality score of a finished run lies in [0, 100] and is 0
\* when the run ingested no products: the duplicate rate of the ingestion
\* report, and the six scores of the user simulation.
C16_ScoresInRange ==
    pc = "done" =>
        /\ report.duplicate_rate \in 0..100
        /\ TotalProducts = 0 => report.duplicate_rate = 0
        /\ \A extracted \in 0..MaxRecs :
              \A m \in DOMAIN QualityScores(extracted) :
                  /\ QualityScores(extracted)[m] \in 0..1000
                  /\ extracted = 0 => QualityScores(extracted)[m] = 0

\* Every file the run read failed.
AllFilesFailed ==
    Len(attempts) > 0 /\ \A i \in 1..Len(attempts) : attempts[i].raised

\* C17 - a finished run in which every file failed is reported as a
\* failure; a run in which some file yielded products is reported as
\* complete, with one error listed for each file that failed.
C17_AllFailedIsFailure ==
    pc = "done" =>
        /\ AllFilesFailed => report.verdict = "failure"
        /\ (~AllFilesFailed /\ Len(AllProducts) > 0) =>
              /\ report.verdict = "complete"
              /\ report.total_errors =
                    Cardinality({i \in 1..Len(attempts) : attempts[i].raised})

\* The deduplication stage has begun.
DedupBegun == pc = "dedup" \/ report.kind # "none"

\* C18 - when the deduplication stage begins every file the loops walk has
\* been attempted, and from then on no file is read and nothing is added to
\* the results or to the deduplication map.
C18_Barrier ==
    /\ [](DedupBegun =>
            \A fmt \in Formats :
                \A i \in 1..Walked(fmt) :
                    \E j \in 1..Len(attempts) :
                        attempts[j].file = FileName(fmt, i))
    /\ [][DedupBegun =>
            /\ attempts' = attempts /\ cur' = cur
            /\ results' = results
            /\ dedup_map' = dedup_map]_vars

\* The report was made over products of at least two files.
C18_Witness ==
    /\ pc = "done" /\ report.kind = "report"
    /\ Len(attempts) >= 2
    /\ report.total_products >= 2
    /\ \E i, j \in 1..Len(AllProducts) :
          AllProducts[i].source # AllProducts[j].source

\* The segments of the migration file that hold SQL text other than
\* comments, in file order.
RECURSIVE SqlSegments(_)
SqlSegments(content) ==
    IF content = <<>> THEN <<>>
    ELSE (IF \E i \in 1..Len(Head(content)) : Head(content)[i] \in SqlLines
          THEN <<StripSegment(Head(content))>>
          ELSE <<>>) \o SqlSegments(Tail(content))

\* C19 - when the runner has gone through the migration, every segment of
\* the file that holds SQL text has been submitted exactly once, in file
\* order, whatever the outcomes of the submissions, and nothing else has.
C19_WholeMigrationSubmitted ==
    (mpc = "exited" /\ exit_status = 0) =>
        posted = SqlSegments(menv.content)

\* C20 - every key test_deduplication counts under 'Duplicate products' has
\* members from at least two different source files, and no source is
\* twice in a key's member list.
C20_DuplicateNeedsTwoSources ==
    report.kind # "none" =>
        \A k \in report.duplicates :
            /\ Cardinality({dedup_map[k][i] : i \in 1..Len(dedup_map[k])}) >= 2
            /\ \A i, j \in 1..Len(dedup_map[k]) :
                  i # j => dedup_map[k][i] # dedup_map[k][j]

\* The number of source entries of a deduplication map, over all its keys.
RECURSIVE MemberTotal(_, _)
MemberTotal(map, keys) ==
    IF keys = {} THEN 0
    ELSE LET k == CHOOSE x \in keys : TRUE
         IN Len(map[k]) + MemberTotal(map, keys \ {k})

\* C21 - after any sequence of file ingestions the source entries of
\* dedup_map are as many as the product records appended to the results of
\* the three formats, and its keys are no more than that.
C21_DedupEntriesMatchProducts ==
    /\ MemberTotal(dedup_map, DOMAIN dedup_map) = Len(AllProducts)
    /\ Cardinality(DOMAIN dedup_map) <= Len(AllProducts)

\* C22 - for the tables extracted from a readable PDF the ingestion tester
\* adds to its count, and appends as products, as many as
\* measure_pdf_extraction counts for the file, and records no error.
C22_PdfCountsAgree ==
    [][(Reads("pdf") /\ cur'.input.kind = "pdf") =>
          /\ results'["pdf"].count
                = results["pdf"].count + MeasurePdfCount(cur'.input)
          /\ ~cur'.raised]_vars

\* C30 - whenever the report's total product count is greater than 0 its
\* SUCCESS RATE is exactly 100, whatever the number of file errors; without
\* products no rate is reported.
C30_SuccessRateAlways100 ==
    report.kind = "report" =>
        /\ report.total_products > 0 => report.success_rate = 100
        /\ report.total_products = 0 => report.success_rate = "none"

\* A report over some products and some failed files.
C30_Witness ==
    /\ report.kind = "report"
    /\ report.total_products > 0 /\ report.total_errors > 0
    /\ report.success_rate = 100

\* C23 - in the statement loop success_count + failed_count is the number
\* of statements processed so far, after it the number of statements, and
\* every loop turn adds one to exactly one of the two counters.
C23_CountersAddUp ==
    /\ [](/\ mpc = "loop" =>
                /\ success_count + failed_count = mi - 1
                /\ success_count + failed_count = Len(posted)
          /\ (mpc = "exited" /\ exit_status = 0) =>
                success_count + failed_count = Len(statements))
    /\ [][mi' = mi + 1 =>
            \/ /\ success_count' = success_count + 1
               /\ failed_count' = failed_count
            \/ /\ failed_count' = failed_count + 1
               /\ success_count' = success_count]_vars

\* The loop is over; one statement succeeded and one failed.
C23_Witness ==
    /\ mpc = "exited" /\ exit_status = 0
    /\ success_count >= 1 /\ failed_count >= 1

\* C24 - after the loop the all-succeeded message is printed exactly when
\* no statement failed, the all-failed warning only when at least one
\* statement was attempted and all attempted statements failed, and the
\* exit status is 0.
C24_ClosingMessage ==
    (mpc = "exited" /\ message # "none") =>
        /\ message = "all_succeeded" <=> failed_count = 0
        /\ message = "all_failed" =>
              Len(posted) >= 1 /\ failed_count = Len(posted)
        /\ exit_status = 0

\* C25 - when SUPABASE_URL or SUPABASE_SERVICE_KEY is unset or the migration
\* file does not exist, the runner never reaches the reading of the file,
\* sends no request, goes on until it exits, and exits with status 1.
C25_MissingSetupExits1 ==
    (~menv.url \/ ~menv.key \/ ~menv.exists) =>
        /\ posted = <<>>
        /\ mpc \in {"env", "file", "exited"}
        /\ mpc = "exited" => exit_status = 1
        /\ mpc # "exited" => ENABLED MigNext

\* Both variables are set, the file with SQL in it is looked for and is not
\* there: the runner has exited with status 1.
C25_Witness ==
    /\ mpc = "exited" /\ exit_status = 1
    /\ menv.url /\ menv.key /\ ~menv.exists
    /\ SqlSegments(menv.content) # <<>>

\* ================= Claims about the agent extraction tester ==============
\* C26 - every extraction request follows a health check that met a status
\* of 200; after any other status or an exception of the health check, run
\* has returned False, no extraction request was sent, no report was
\* generated and the process has exited with status 1.
C26_HealthGatesExtraction ==
    /\ \A i \in 1..Len(requests) :
          requests[i] # "GET /health" =>
              /\ health = "200"
              /\ i > 1
              /\ requests[1] = "GET /health"
    /\ health \in {"503", "exception"} =>
          /\ requests = <<"GET /health">>
          /\ apc = "exited"
          /\ success = "False"
          /\ areport = "none"
          /\ aexit = 1

\* The health check could not connect and the process has exited.
C26_Witness ==
    health = "exception" /\ apc = "exited" /\ aexit = 1

\* C27 - generate_report ends without a division by zero whatever
\* self.results holds.
C27_ReportNeverDividesByZero ==
    areport # "zero_division"

\* ==================== Claims about the user simulation ===================
\* C28 - run calls the eight steps once each in the order of its list; a
\* step that returned False or raised is followed by the next step;
\* print_summary runs after the eighth step and export_results after
\* print_summary in every execution, and no exception leaves run, even
\* when the results file could not be written.
C28_AllStepsThenSummaryThenExport ==
    /\ Len(invoked) <= Len(Steps)
    /\ invoked = SubSeq(Steps, 1, Len(invoked))
    /\ Len(outcomes) \in {Len(invoked) - 1, Len(invoked)}
    /\ summary => (invoked = Steps /\ Len(outcomes) = Len(Steps))
    /\ exported # "none" => summary
    /\ spc = "done" => exported # "none"
    /\ ~sraised
    /\ spc # "done" => ENABLED SimNext

\* A run in which one step returned False and another raised, and the
\* results file could not be written.
C28_Witness ==
    /\ spc = "done"
    /\ exported = "failed"
    /\ \E i \in 1..Len(outcomes) : outcomes[i] = "False"
    /\ \E i \in 1..Len(outcomes) : outcomes[i] = "raised"

RECURSIVE SumExtracted(_)
SumExtracted(s) ==
    IF s = <<>> THEN 0
    ELSE Head(s).products_extracted + SumExtracted(Tail(s))

\* C29 - in the ingestion step the status is 'partial_failure' exactly
\* when an extraction has raised, at every moment from the first catalog
\* on; once all uploaded catalogs are processed 'extractions' holds one
\* entry per catalog whose extraction did not raise, and total_extracted
\* is the sum of products_extracted over these entries.
C29_IngestionTotals ==
    /\ test_result.status # "none" =>
          (test_result.status = "partial_failure" <=> test_result.raised > 0)
    /\ test_result.total_extracted # -1 =>
          /\ Len(test_result.extractions) =
                Len(uploaded_catalogs) - test_result.raised
          /\ test_result.total_extracted =
                SumExtracted(test_result.extractions)

=============================================================================
